---------------------------- MODULE Spec2Model ----------------------------
(* Session state machine of the Smart Lesson Planner (src/Chatbot.py).     *)
(* One action per button handler of main(); the two completion wrappers    *)
(* are operators applied to a nondeterministic service response.           *)
EXTENDS Integers, Sequences, FiniteSets, TLC

(* ------------------------------ bounds -------------------------------- *)
\* longest chat_history explored
MaxHist == 5

(* --------------------------- value domains ---------------------------- *)
\* Python's None, kept distinct from every text (the empty text included)
None == "<None>"

\* texts the completion service may return; "" is the empty completion
Texts == {"", "PLAN_V1", "PLAN_V2"}

\* what the user may have typed into the chat text area
UserInputs == {"", "add more group work"}

\* str(e) of the exceptions the client may raise
Exceptions == {"timeout"}

\* outcome of client.chat.completions.create: a text, or an exception
Responses ==
    [ok : {TRUE}, content : Texts] \cup [ok : {FALSE}, content : Exceptions]

\* contents of the form widgets when the Generate button is pressed
FormInputs ==
    [enquiry_question   : {"", "Why do leaves change color?"},
     year_group         : {"Year 3"},
     num_lessons        : {3},
     objectives         : {"", "obj"},
     active_learning    : {"", "act"},
     adaptive_practices : {"", "ada"}]

NoForm ==
    [enquiry_question |-> "", year_group |-> "", num_lessons |-> 0,
     objectives |-> "", active_learning |-> "", adaptive_practices |-> ""]

NoResponse == [ok |-> FALSE, content |-> ""]

(* ------------------------------ helpers ------------------------------- *)
\* Python truthiness of an Optional[str]
Truthy(v) == v /= None /\ v /= ""

\* {"role": role, "content": content}
Message(role, content) == [role |-> role, content |-> content]

\* variant: the check forgets the last field
all_fields_skips_last(f) ==
    /\ Truthy(f.enquiry_question)
    /\ Truthy(f.objectives)
    /\ Truthy(f.active_learning)

\* all([enquiry_question, objectives, active_learning, adaptive_practices])
all_fields(f) ==
    /\ Truthy(f.enquiry_question)
    /\ Truthy(f.objectives)
    /\ Truthy(f.active_learning)
    /\ Truthy(f.adaptive_practices)

\* f"Error generating lesson plan: {str(e)}"
GenerateErrorText(e) ==
    CASE e = "timeout" -> "Error generating lesson plan: timeout"

\* f"Error refining lesson plan: {str(e)}"
RefineErrorText(e) ==
    CASE e = "timeout" -> "Error refining lesson plan: timeout"

NoNotice == [kind |-> "none", text |-> ""]
NoCall == [fn |-> "none", form |-> NoForm, base_plan |-> "", user_comments |-> ""]

\* variant: on an exception the error text is returned, as
\* get_chat_response does (line 109)
generate_returns_error_text(f, r) ==
    [call   |-> [fn |-> "generate", form |-> f,
                 base_plan |-> "", user_comments |-> ""],
     ret    |-> IF r.ok THEN r.content ELSE GenerateErrorText(r.content),
     notice |-> IF r.ok THEN NoNotice
                ELSE [kind |-> "error", text |-> GenerateErrorText(r.content)]]

\* generate_lesson_plan_with_openai: the request it issues, what it
\* returns, and what it displays, for service outcome r
generate_lesson_plan_with_openai(f, r) ==
    [call   |-> [fn |-> "generate", form |-> f,
                 base_plan |-> "", user_comments |-> ""],
     ret    |-> IF r.ok THEN r.content ELSE None,
     notice |-> IF r.ok THEN NoNotice
                ELSE [kind |-> "error", text |-> GenerateErrorText(r.content)]]

\* refine_lesson_plan_with_openai, likewise
refine_lesson_plan_with_openai(base_plan, user_comments, r) ==
    [call   |-> [fn |-> "refine", form |-> NoForm,
                 base_plan |-> base_plan, user_comments |-> user_comments],
     ret    |-> IF r.ok THEN r.content ELSE None,
     notice |-> IF r.ok THEN NoNotice
                ELSE [kind |-> "error", text |-> RefineErrorText(r.content)]]

\* variant: the history is re-seeded on every run of the chat view
SeedHistory_always(h, plan) == <<Message("assistant", plan)>>

\* lines 229-231: seed the history with the plan when it is empty
SeedHistory(h, plan) ==
    IF h = <<>> THEN <<Message("assistant", plan)>> ELSE h

(* ------------------------------- state -------------------------------- *)
VARIABLES
    generated_plan,   \* st.session_state.generated_plan
    chat_history,     \* st.session_state.chat_history
    rerun,            \* st.rerun() requested, the script has not run again yet
    notice,           \* warning / error / success shown by the last run
    call,             \* completion request issued by the last run
    downloaded,       \* data handed out by the last download
    event,            \* the button press the last run handled, with its inputs
    chain             \* Sends that succeeded since the last successful
                      \* generation call, -1 when there is no such chain

vars == <<generated_plan, chat_history, rerun, notice, call, downloaded,
          event, chain>>

Event(op, f, u, r, plan, hist) ==
    [op |-> op, form |-> f, user_input |-> u, response |-> r,
     plan_before |-> plan, history_before |-> hist]

\* lines 155-159, first run of a session
Init ==
    /\ generated_plan = None
    /\ chat_history = <<>>
    /\ rerun = FALSE
    /\ notice = NoNotice
    /\ call = NoCall
    /\ downloaded = None
    /\ event = Event("start", NoForm, "", NoResponse, None, <<>>)
    /\ chain = -1

(* ------------------------------ actions ------------------------------- *)
\* lines 162, 203-220: the Generate button of the form view
Generate(f, r) ==
    /\ ~rerun
    /\ ~Truthy(generated_plan)
    /\ event' = Event("Generate", f, "", r, generated_plan, chat_history)
    /\ UNCHANGED <<chat_history, downloaded>>
    /\ IF ~all_fields(f)
       THEN /\ notice' = [kind |-> "warning",
                          text |-> "Please fill out all fields to generate a lesson plan!"]
            /\ call' = NoCall
            /\ chain' = -1
            /\ UNCHANGED <<generated_plan, rerun>>
       ELSE LET g == generate_lesson_plan_with_openai(f, r) IN
            /\ call' = g.call
            /\ chain' = IF r.ok THEN 0 ELSE -1
            /\ IF Truthy(g.ret)
               THEN /\ generated_plan' = g.ret
                    /\ notice' = [kind |-> "success",
                                  text |-> "Lesson plan generated successfully!"]
                    /\ rerun' = TRUE
               ELSE /\ notice' = g.notice
                    /\ UNCHANGED <<generated_plan, rerun>>

\* the run started by st.rerun() / st.experimental_rerun(): no button is
\* pressed; lines 162, 229-231
Rerun ==
    /\ rerun
    /\ rerun' = FALSE
    /\ notice' = NoNotice
    /\ call' = NoCall
    /\ chat_history' = IF Truthy(generated_plan)
                       THEN SeedHistory(chat_history, generated_plan)
                       ELSE chat_history
    /\ UNCHANGED <<generated_plan, downloaded, event, chain>>

\* variant: the refined plan also replaces the first entry of the history
Send_rewrites_first_entry(u, r) ==
    /\ ~rerun
    /\ Truthy(generated_plan)
    /\ Len(chat_history) + 2 <= MaxHist
    /\ event' = Event("Send", NoForm, u, r, generated_plan, chat_history)
    /\ UNCHANGED <<rerun, downloaded>>
    /\ LET seeded == SeedHistory(chat_history, generated_plan) IN
       IF ~Truthy(u)
       THEN /\ chat_history' = seeded
            /\ notice' = NoNotice
            /\ call' = NoCall
            /\ UNCHANGED <<generated_plan, chain>>
       ELSE LET withUser == Append(seeded, Message("user", u))
                g == refine_lesson_plan_with_openai(generated_plan, u, r)
                appended == Append(withUser, Message("assistant", g.ret))
            IN /\ call' = g.call
               /\ notice' = g.notice
               /\ chat_history' =
                    [appended EXCEPT ![1] = Message("assistant", g.ret)]
               /\ generated_plan' = g.ret
               /\ chain' = IF r.ok /\ chain >= 0 THEN chain + 1 ELSE -1

\* lines 162, 229-231, 246-259: the Send button of the chat view
Send(u, r) ==
    /\ ~rerun
    /\ Truthy(generated_plan)
    /\ Len(chat_history) + 2 <= MaxHist
    /\ event' = Event("Send", NoForm, u, r, generated_plan, chat_history)
    /\ UNCHANGED <<rerun, downloaded>>
    /\ LET seeded == SeedHistory(chat_history, generated_plan) IN
       IF ~Truthy(u)
       THEN /\ chat_history' = seeded
            /\ notice' = NoNotice
            /\ call' = NoCall
            /\ UNCHANGED <<generated_plan, chain>>
       ELSE LET withUser == Append(seeded, Message("user", u))
                g == refine_lesson_plan_with_openai(generated_plan, u, r)
            IN /\ call' = g.call
               /\ notice' = g.notice
               /\ chat_history' = Append(withUser, Message("assistant", g.ret))
               /\ generated_plan' = g.ret
               /\ chain' = IF r.ok /\ chain >= 0 THEN chain + 1 ELSE -1

\* lines 162, 263-268: the download button of the chat view
Download ==
    /\ ~rerun
    /\ Truthy(generated_plan)
    /\ event' = Event("Download", NoForm, "", NoResponse, generated_plan, chat_history)
    /\ downloaded' = generated_plan
    /\ chat_history' = SeedHistory(chat_history, generated_plan)
    /\ notice' = NoNotice
    /\ call' = NoCall
    /\ UNCHANGED <<generated_plan, rerun, chain>>

\* variant: only the plan is cleared, the history is kept
NewPlan_keeps_history ==
    /\ ~rerun
    /\ Truthy(generated_plan)
    /\ event' = Event("NewPlan", NoForm, "", NoResponse, generated_plan, chat_history)
    /\ generated_plan' = None
    /\ rerun' = TRUE
    /\ notice' = NoNotice
    /\ call' = NoCall
    /\ chain' = -1
    /\ UNCHANGED <<chat_history, downloaded>>

\* lines 162, 270-273: the Create New Plan button of the chat view
NewPlan ==
    /\ ~rerun
    /\ Truthy(generated_plan)
    /\ event' = Event("NewPlan", NoForm, "", NoResponse, generated_plan, chat_history)
    /\ generated_plan' = None
    /\ chat_history' = <<>>
    /\ rerun' = TRUE
    /\ notice' = NoNotice
    /\ call' = NoCall
    /\ chain' = -1
    /\ UNCHANGED downloaded

Next ==
    \/ \E f \in FormInputs, r \in Responses : Generate(f, r)
    \/ Rerun
    \/ \E u \in UserInputs, r \in Responses : Send(u, r)
    \/ Download
    \/ NewPlan

Spec == Init /\ [][Next]_vars

(* --------------------------- claim helpers ---------------------------- *)
IsPrefix(s, t) == Len(s) <= Len(t) /\ SubSeq(t, 1, Len(s)) = s

AnyRequiredEmpty(f) ==
    \/ f.enquiry_question = ""
    \/ f.objectives = ""
    \/ f.active_learning = ""
    \/ f.adaptive_practices = ""

AssistantIndexes(h) == {i \in 1..Len(h) : h[i].role = "assistant"}

MaxOf(S) == CHOOSE m \in S : \A k \in S : k <= m

\* the last handler run was a Generate that passed validation
ValidGenerate(e) == e.op = "Generate" /\ ~AnyRequiredEmpty(e.form)

\* the last handler run was a Send with non-empty input
RealSend(e) == e.op = "Send" /\ e.user_input /= ""

(* ------------------------------- claims ------------------------------- *)
\* C1 (as stated): after a Generate whose completion call succeeded, once
\* the script has re-rendered, generated_plan is the returned text and
\* chat_history is exactly one assistant message with that text.
C1_GenerateSeedsSinglePlan ==
    (ValidGenerate(event) /\ event.response.ok /\ ~rerun)
        => /\ generated_plan = event.response.content
           /\ chat_history = <<Message("assistant", event.response.content)>>

\* C2 (as stated): after a successful generation followed by N successful
\* Sends, chat_history has 1 + 2N entries (seed, then user/assistant pairs)
\* and generated_plan is the content of the last assistant entry.
C2_HistoryLengthAfterNSends ==
    (chain >= 0 /\ ~rerun)
        => /\ Len(chat_history) = 1 + 2 * chain
           /\ chat_history[1].role = "assistant"
           /\ \A k \in 1..chain :
                /\ chat_history[2 * k].role = "user"
                /\ chat_history[2 * k + 1].role = "assistant"
           /\ generated_plan = chat_history[Len(chat_history)].content

\* C3 (as stated): when a Send's refinement call fails the session stays in
\* Refining, chat_history gains the user message and an assistant message
\* holding the failure message, and generated_plan is that failure message.
C3_FailedSendFoldsMessage ==
    (RealSend(event) /\ ~event.response.ok)
        => /\ Truthy(generated_plan)
           /\ generated_plan = RefineErrorText(event.response.content)
           /\ chat_history = event.history_before \o
                <<Message("user", event.user_input),
                  Message("assistant", RefineErrorText(event.response.content))>>

\* C4 (as stated): the only step from Refining to Composing is New Plan (no
\* Send does it), and the only step from Composing to Refining is a
\* Generate whose completion call succeeded.
C4_OnlyNewPlanLeavesRefining ==
    [][ /\ (Truthy(generated_plan) /\ ~Truthy(generated_plan'))
              => event'.op = "NewPlan"
        /\ (~Truthy(generated_plan) /\ Truthy(generated_plan'))
              => (ValidGenerate(event') /\ event'.response.ok) ]_vars

\* C5: a Generate that passes validation and whose completion call fails
\* leaves the session in Composing (no plan, line 162) with generated_plan
\* and chat_history unchanged, shows an error and not the validation
\* warning, and the failure text is neither the plan nor a history entry.
C5_FailedGenerateStaysComposing ==
    [][ (~rerun /\ ValidGenerate(event') /\ ~event'.response.ok)
          => /\ generated_plan' = generated_plan
             /\ generated_plan' \in {None, ""}
             /\ chat_history' = chat_history
             /\ rerun' = FALSE
             /\ notice'.kind = "error"
             /\ call'.fn = "generate"
             /\ generated_plan' /= notice'.text
             /\ \A i \in 1..Len(chat_history') :
                    chat_history'[i].content /= notice'.text ]_vars

C5_Witness ==
    /\ ValidGenerate(event) /\ ~event.response.ok
    /\ notice.kind = "error"
    /\ call.fn = "generate"
    /\ generated_plan = None

\* C6: a Generate with any required text field empty shows the warning,
\* issues no completion call and leaves generated_plan and chat_history
\* unchanged, the session staying in Composing.
C6_InvalidGenerateMakesNoCall ==
    [][ (~rerun /\ event'.op = "Generate" /\ AnyRequiredEmpty(event'.form))
          => /\ notice'.kind = "warning"
             /\ call'.fn = "none"
             /\ generated_plan' = generated_plan
             /\ chat_history' = chat_history
             /\ generated_plan' \in {None, ""}
             /\ rerun' = FALSE ]_vars

C6_Witness ==
    /\ event.op = "Generate"
    /\ event.form.adaptive_practices = ""
    /\ event.form.enquiry_question /= ""
    /\ event.response.ok
    /\ notice.kind = "warning"
    /\ call.fn = "none"

\* C7: New Plan, whatever the length of chat_history, leaves generated_plan
\* absent and chat_history empty, which is the initial session state.
C7_NewPlanResets ==
    event.op = "NewPlan" => (generated_plan = None /\ chat_history = <<>>)

C7_Witness ==
    /\ event.op = "NewPlan"
    /\ Len(event.history_before) >= 3
    /\ ~rerun
    /\ chat_history = <<>>

\* C8 (as stated): whenever chat_history is non-empty its first entry is an
\* assistant message whose content equals generated_plan.
C8_FirstEntryIsCurrentPlan ==
    chat_history /= <<>>
        => /\ chat_history[1].role = "assistant"
           /\ chat_history[1].content = generated_plan

\* C8 (amended): whenever chat_history is non-empty its first entry is an
\* assistant message holding a non-empty plan; it is the value
\* generated_plan had when the history was seeded, and it stays in place
\* while the history is non-empty (a Send appends the refined plan at the
\* end and does not touch the first entry).
C8_FirstEntryIsSeedPlan ==
    /\ [](chat_history /= <<>>
            => /\ chat_history[1].role = "assistant"
               /\ Truthy(chat_history[1].content))
    /\ [][ /\ (chat_history = <<>> /\ chat_history' /= <<>>)
                => /\ chat_history' = <<Message("assistant", generated_plan)>>
                   /\ generated_plan' = generated_plan
           /\ (chat_history /= <<>> /\ chat_history' /= <<>>)
                => chat_history'[1] = chat_history[1] ]_vars

C8_Witness ==
    /\ RealSend(event) /\ event.response.ok
    /\ Len(chat_history) >= 3
    /\ Truthy(generated_plan)
    /\ chat_history[1].content /= generated_plan
    /\ chat_history[Len(chat_history)].content = generated_plan

\* C9: every step either keeps the old chat_history as a prefix of the new
\* one, or is New Plan and leaves chat_history empty.
C9_HistoryAppendOnly ==
    [][ \/ IsPrefix(chat_history, chat_history')
        \/ (~rerun /\ event'.op = "NewPlan" /\ chat_history' = <<>>) ]_vars

C9_Witness ==
    /\ RealSend(event)
    /\ Len(event.history_before) >= 3
    /\ Len(chat_history) = Len(event.history_before) + 2
    /\ IsPrefix(event.history_before, chat_history)

\* C10 (as stated): a Send with non-empty input issues one refinement call
\* whose base plan is the generated_plan held before the Send, itself the
\* content of the last assistant entry then in chat_history; the user
\* message and then the call's result are appended, and the result becomes
\* generated_plan.
C10_RefinementChainsOnLatestPlan ==
    RealSend(event)
        => /\ call.fn = "refine"
           /\ call.user_comments = event.user_input
           /\ call.base_plan = event.plan_before
           /\ AssistantIndexes(event.history_before) /= {}
           /\ event.plan_before =
                event.history_before[MaxOf(AssistantIndexes(event.history_before))].content
           /\ chat_history = event.history_before \o
                <<Message("user", event.user_input),
                  Message("assistant", generated_plan)>>
           /\ event.response.ok => generated_plan = event.response.content

=============================================================================
